---- MODULE Spec2Model ----
(***************************************************************************)
(* A model of the TTS pipeline of src/: the text segmenter                 *)
(* (src/parser.py, TextParser), and the driver that feeds its segments to  *)
(* the synthesizer, the combiner and the run logger (src/main.py,          *)
(* src/logger.py).                                                         *)
(*                                                                         *)
(* A Python str is modelled as a sequence of one-character strings, so     *)
(* that strip(), split('\n'), the two regular expressions and len() are    *)
(* computed character by character as the code computes them.              *)
(***************************************************************************)
EXTENDS Naturals, Sequences, FiniteSets

(***************************************************************************)
(* Bounds of the model.                                                    *)
(***************************************************************************)
\* Every text over Alphabet of at most MaxLen characters is an input.
MaxLen == 4
\* Every document of at most MaxLines lines of LinePool is an input.
MaxLines == 3
\* min_segment_length ranges over 0..MaxMin for these inputs.
MaxMin == 4

(***************************************************************************)
(* Characters and strings.                                                 *)
(***************************************************************************)
\* Python's None (TextSegment.header, current_header): no text equals it,
\* since a text holds one-character strings only.
None == <<"<None>">>

\* str.strip() and the regex class \s: ASCII whitespace.
IsSpace(c) == c \in {" ", "\t", "\n", "\r", "\f"}

\* The regex class [.!?].
IsPunct(c) == c \in {".", "!", "?"}

SetMin(S) == CHOOSE x \in S : \A y \in S : x <= y

SetMax(S) == CHOOSE x \in S : \A y \in S : y <= x

\* s[from..], Python's s[from-1:].
Tail_(s, from) == SubSeq(s, from, Len(s))

\* str.strip()
Strip(s) ==
    LET keep == {i \in 1..Len(s) : ~IsSpace(s[i])}
    IN  IF keep = {} THEN <<>> ELSE SubSeq(s, SetMin(keep), SetMax(keep))

\* str.split('\n'): the lines of s; one (empty) line for the empty string.
RECURSIVE SplitLines(_)
SplitLines(s) ==
    LET nl == {i \in 1..Len(s) : s[i] = "\n"}
    IN  IF nl = {} THEN <<s>>
        ELSE <<SubSeq(s, 1, SetMin(nl) - 1)>>
                 \o SplitLines(Tail_(s, SetMin(nl) + 1))

\* '\n'.join(lines)
RECURSIVE JoinLines(_)
JoinLines(lines) ==
    IF lines = <<>> THEN <<>>
    ELSE IF Len(lines) = 1 THEN lines[1]
    ELSE lines[1] \o <<"\n">> \o JoinLines(Tail(lines))

\* The length of the run of characters satisfying the class at the start of s.
RECURSIVE HashRun(_)
HashRun(s) == IF s # <<>> /\ s[1] = "#" THEN 1 + HashRun(Tail(s)) ELSE 0

RECURSIVE SpaceRun(_)
SpaceRun(s) == IF s # <<>> /\ IsSpace(s[1]) THEN 1 + SpaceRun(Tail(s)) ELSE 0

RECURSIVE PunctRun(_)
PunctRun(s) == IF s # <<>> /\ IsPunct(s[1]) THEN 1 + PunctRun(Tail(s)) ELSE 0

(***************************************************************************)
(* TextSegment and the two patterns.                                       *)
(***************************************************************************)
\* TextSegment(text, header, is_header).  The field line is not in the code:
\* it is a history field, read by no operation, that records the document
\* line (1-based) at which the text the segment was created from starts.
TextSegment(text, header, is_header, line) ==
    [text |-> text, header |-> header, is_header |-> is_header, line |-> line]

NoMatch == <<"<NoMatch>">>

\* The pattern with optional whitespace and text, ^(#{1,6})\s*(.*)$: a line
\* of '#' alone is a header with an empty text.
HeaderMatch_Loose(line) ==
    LET h == HashRun(line)
        w == SpaceRun(Tail_(line, h + 1))
        rest == Tail_(line, h + w + 1)
    IN  IF h >= 1 /\ h <= 6 /\ (w >= 1 \/ rest = <<>>) THEN rest ELSE NoMatch

\* header_pattern.match(line): group(2) of ^(#{1,6})\s+(.+)$ on a stripped
\* line, or NoMatch.  The greedy #{1,6} must be followed by whitespace, so
\* it spans the whole run of '#'; \s+ spans the whole run of whitespace,
\* and .+ takes the rest of the line, which holds no '\n'.
HeaderMatch(line) ==
    LET h == HashRun(line)
        w == SpaceRun(Tail_(line, h + 1))
        rest == Tail_(line, h + w + 1)
    IN  IF h >= 1 /\ h <= 6 /\ w >= 1 /\ rest # <<>> /\ "\n" \notin
               {rest[k] : k \in 1..Len(rest)}
        THEN rest ELSE NoMatch

\* The split without its capturing group, r'[.!?]+\s+': the punctuation is
\* lost and the parts no longer alternate.
RECURSIVE ReSplit_NoCapture(_)
ReSplit_NoCapture(s) ==
    LET starts == {i \in 1..Len(s) :
                      /\ IsPunct(s[i])
                      /\ LET e == i + PunctRun(Tail_(s, i)) - 1
                         IN  e < Len(s) /\ IsSpace(s[e + 1])}
    IN  IF starts = {} THEN <<s>>
        ELSE LET i == SetMin(starts)
                 e == i + PunctRun(Tail_(s, i)) - 1
                 w == SpaceRun(Tail_(s, e + 1))
             IN  <<SubSeq(s, 1, i - 1)>> \o ReSplit_NoCapture(Tail_(s, e + w + 1))

\* re.split(r'([.!?]+)\s+', s): the texts between the matches alternating
\* with the captured punctuation runs.  The leftmost match is the first
\* run of punctuation that whitespace follows.
RECURSIVE ReSplit(_)
ReSplit(s) ==
    LET starts == {i \in 1..Len(s) :
                      /\ IsPunct(s[i])
                      /\ LET e == i + PunctRun(Tail_(s, i)) - 1
                         IN  e < Len(s) /\ IsSpace(s[e + 1])}
    IN  IF starts = {} THEN <<s>>
        ELSE LET i == SetMin(starts)
                 e == i + PunctRun(Tail_(s, i)) - 1
                 w == SpaceRun(Tail_(s, e + 1))
             IN  <<SubSeq(s, 1, i - 1), SubSeq(s, i, e)>>
                     \o ReSplit(Tail_(s, e + w + 1))

(***************************************************************************)
(* TextParser._split_by_headers                                            *)
(***************************************************************************)
\* The collected lines joined and kept as they are, not trimmed.
FlushText_NoStrip(segments, current_text, current_header, first) ==
    IF current_text # <<>>
    THEN LET segment_text == JoinLines(current_text)
         IN  IF segment_text # <<>>
             THEN Append(segments,
                         TextSegment(segment_text, current_header, FALSE, first))
             ELSE segments
    ELSE segments

\* "Save previous segment if it has content" / "Add remaining text": the
\* accumulated lines, joined and stripped, become a content segment under
\* current_header unless they are empty.  first is the line the accumulated
\* text starts at.
FlushText(segments, current_text, current_header, first) ==
    IF current_text # <<>>
    THEN LET segment_text == Strip(JoinLines(current_text))
         IN  IF segment_text # <<>>
             THEN Append(segments,
                         TextSegment(segment_text, current_header, FALSE, first))
             ELSE segments
    ELSE segments

\* current_header left as it was after a header line.
NextHeader_Stale(current_header, header_text) == current_header

\* The two assignments that follow a header line: the content segments that
\* come next are filed under header_text.
NextHeader(current_header, header_text) == header_text

\* The loop over the lines, from line i on.
RECURSIVE HeaderLoop(_, _, _, _, _, _)
HeaderLoop(lines, i, current_header, current_text, first, segments) ==
    IF i > Len(lines)
    THEN FlushText(segments, current_text, current_header, first)
    ELSE LET line == lines[i]
             header_match == HeaderMatch(Strip(line))
         IN  IF header_match # NoMatch
             THEN LET header_text == Strip(header_match)
                      saved == FlushText(segments, current_text,
                                         current_header, first)
                  IN  HeaderLoop(lines, i + 1,
                                 NextHeader(current_header, header_text),
                                 <<>>, 0,
                                 Append(saved, TextSegment(header_text,
                                                   header_text, TRUE, i)))
             ELSE IF Strip(line) # <<>>
             THEN HeaderLoop(lines, i + 1, current_header,
                             Append(current_text, line),
                             IF current_text = <<>> THEN i ELSE first,
                             segments)
             ELSE HeaderLoop(lines, i + 1, current_header, current_text,
                             first, segments)

SplitByHeaders(text) == HeaderLoop(SplitLines(text), 1, None, <<>>, 0, <<>>)

(***************************************************************************)
(* TextParser._split_by_punctuation                                        *)
(***************************************************************************)
\* The comparison off by one: > for >=.
KeepSentence_Strict(sentence_text, min) ==
    sentence_text # <<>> /\ Len(sentence_text) > min

\* "Only add if it meets minimum length requirement".
KeepSentence(sentence_text, min) ==
    sentence_text # <<>> /\ Len(sentence_text) >= min

\* The loop without its "current_sentence = ''" after a sentence.
RECURSIVE SentenceLoop_NoReset(_, _, _, _, _, _)
SentenceLoop_NoReset(sentences, i, current_sentence, segment, min, result) ==
    IF i > Len(sentences)
    THEN [result |-> result, current_sentence |-> current_sentence]
    ELSE IF i % 2 = 1
    THEN SentenceLoop_NoReset(sentences, i + 1,
                              current_sentence \o sentences[i],
                              segment, min, result)
    ELSE LET sentence_text == Strip(current_sentence \o sentences[i])
         IN  SentenceLoop_NoReset(sentences, i + 1,
                 current_sentence \o sentences[i], segment, min,
                 IF KeepSentence(sentence_text, min)
                 THEN Append(result, TextSegment(sentence_text, segment.header,
                                                 FALSE, segment.line))
                 ELSE result)

\* The loop over the parts of re.split, from part i on (i counts from 1, so
\* the text parts are the odd ones): the result list and current_sentence
\* as the loop leaves them.
RECURSIVE SentenceLoop(_, _, _, _, _, _)
SentenceLoop(sentences, i, current_sentence, segment, min, result) ==
    IF i > Len(sentences)
    THEN [result |-> result, current_sentence |-> current_sentence]
    ELSE IF i % 2 = 1
    THEN SentenceLoop(sentences, i + 1, current_sentence \o sentences[i],
                      segment, min, result)
    ELSE LET sentence_text == Strip(current_sentence \o sentences[i])
         IN  SentenceLoop(sentences, i + 1, <<>>, segment, min,
                 IF KeepSentence(sentence_text, min)
                 THEN Append(result, TextSegment(sentence_text, segment.header,
                                                 FALSE, segment.line))
                 ELSE result)

\* The test without "and not result[-1].is_header".
CanMerge_AnyPrevious(result) == result # <<>>

\* "If we have previous segments, append to last one".
CanMerge(result) == result # <<>> /\ ~result[Len(result)].is_header

\* The short remainder put before the last segment's text, not after it.
AddRemaining_Prepend(result, current_sentence, segment, min) ==
    LET remaining == Strip(current_sentence)
    IN  IF remaining = <<>> THEN result
        ELSE IF Len(remaining) >= min
        THEN Append(result,
                    TextSegment(remaining, segment.header, FALSE, segment.line))
        ELSE IF CanMerge(result)
        THEN [result EXCEPT ![Len(result)].text = remaining \o <<" ">> \o @]
        ELSE Append(result,
                    TextSegment(remaining, segment.header, FALSE, segment.line))

\* "Add remaining text if any (last part without punctuation)".
AddRemaining(result, current_sentence, segment, min) ==
    LET remaining == Strip(current_sentence)
    IN  IF remaining = <<>> THEN result
        ELSE IF Len(remaining) >= min
        THEN Append(result,
                    TextSegment(remaining, segment.header, FALSE, segment.line))
        ELSE IF CanMerge(result)
        THEN [result EXCEPT ![Len(result)].text = @ \o <<" ">> \o remaining]
        ELSE Append(result,
                    TextSegment(remaining, segment.header, FALSE, segment.line))

\* The iteration that skips a header segment without appending it.
PunctSegment_DropHeaders(result, segment, min) ==
    IF segment.is_header THEN result
    ELSE LET after == SentenceLoop(ReSplit(segment.text), 1, <<>>, segment,
                                   min, result)
         IN  AddRemaining(after.result, after.current_sentence, segment, min)

\* One iteration of "for segment in segments".
PunctSegment(result, segment, min) ==
    IF segment.is_header THEN Append(result, segment)
    ELSE LET after == SentenceLoop(ReSplit(segment.text), 1, <<>>, segment,
                                   min, result)
         IN  AddRemaining(after.result, after.current_sentence, segment, min)

\* The whole loop, from segment i on.
RECURSIVE PunctLoop(_, _, _, _)
PunctLoop(segments, i, min, result) ==
    IF i > Len(segments) THEN result
    ELSE PunctLoop(segments, i + 1, min, PunctSegment(result, segments[i], min))

SplitByPunctuation(segments, min) == PunctLoop(segments, 1, min, <<>>)

(***************************************************************************)
(* TextParser.parse                                                        *)
(***************************************************************************)
\* "Filter out segments that are too short".
LongEnough(s, min) == Len(Strip(s.text)) >= min

\* The filter applied to content segments only.
FilterShort_KeepHeaders(segments, min) ==
    SelectSeq(segments, LAMBDA s : s.is_header \/ LongEnough(s, min))

FilterShort(segments, min) == SelectSeq(segments, LAMBDA s : LongEnough(s, min))

\* The test without strip(): "if not text".
IsBlank_EmptyOnly(text) == text = <<>>

\* "if not text.strip(): return []"
IsBlank(text) == Strip(text) = <<>>

\* The first stage: the segments before punctuation splitting.
FirstStage(text, by_headers) ==
    IF by_headers THEN SplitByHeaders(text)
    ELSE <<TextSegment(Strip(text), None, FALSE, 1)>>

\* parse(text) under the options of the constructor.
Parse(text, by_headers, by_punctuation, min) ==
    IF IsBlank(text) THEN <<>>
    ELSE LET first == FirstStage(text, by_headers)
             second == IF by_punctuation THEN SplitByPunctuation(first, min)
                       ELSE first
         IN  FilterShort(second, min)

(***************************************************************************)
(* The inputs.                                                             *)
(***************************************************************************)
\* A letter, sentence punctuation, the two kinds of whitespace that matter
\* (a blank and a line break) and the header marker.
Alphabet == {"a", ".", " ", "\n", "#"}

\* Every text over Alphabet of at most n characters.
Strings(n) == UNION {[1..k -> Alphabet] : k \in 0..n}

\* Lines of a document: headers (short and long), sentences with a short
\* trailing remainder, a blank line, a line without punctuation, a match
\* with two blanks, and a '#' that starts no header.
LinePool ==
    { <<"#", " ", "h">>,
      <<"#", "#", " ", "H", "e", "a", "d">>,
      <<"a", "b", ".", " ", "c">>,
      <<"a", "b", "c", "d", ".", " ", "e", "f", "g", "!", " ", "h", "i">>,
      <<>>,
      <<"x", "y", "z">>,
      <<"a", "?", " ", " ", "b", ".">>,
      <<"#", "x", ".", " ", "y">> }

\* Every document of 1..n lines of LinePool.
Documents(n) ==
    {JoinLines(ls) : ls \in UNION {[1..k -> LinePool] : k \in 1..n}}

\* The scenarios of the specification's section 8.
IntroText ==
    <<"#", " ", "I", "n", "t", "r", "o", "\n", "H", "e", "l", "l", "o",
      " ", "w", "o", "r", "l", "d", ".", " ", "T", "h", "i", "s", " ", "i",
      "s", " ", "a", " ", "t", "e", "s", "t", " ", "s", "e", "n", "t", "e",
      "n", "c", "e", " ", "t", "h", "a", "t", " ", "i", "s", " ", "l", "o",
      "n", "g", " ", "e", "n", "o", "u", "g", "h", ".">>

ABCText ==
    <<"A", ".", " ", "B", ".", " ", "C", ".">>

TitleText ==
    <<"#", " ", "T", "i", "t", "l", "e", "\n", "O", "n", "e", " ", "s",
      "e", "n", "t", "e", "n", "c", "e">>

ScenarioTexts == {IntroText, ABCText, TitleText}

\* min_segment_length of the scenarios, and the constructor's default.
DefaultMinSegmentLength == 50

ScenarioMins == {0, 1, 10, DefaultMinSegmentLength}

Texts == Strings(MaxLen) \cup Documents(MaxLines)

(***************************************************************************)
(* The state.                                                              *)
(***************************************************************************)
VARIABLES
    text,                  \* the input document
    split_by_headers,      \* TextParser's three options
    split_by_punctuation,
    min_segment_length,
    pc,                    \* where the program is
    segments,              \* parse: the local segments; process_text: parse's result
    first_stage,           \* history: segments as punctuation splitting found them
    result,                \* _split_by_punctuation: the local result
    idx,                   \* how many elements the running loop has processed
    current_header,        \* process_text: the local current_header
    segment_files,         \* process_text: the clip paths; combine's argument
    entries,               \* TTSLogger.entries
    disk,                  \* the clip files that exist
    calls,                 \* history: the calls made to the collaborators
    final_output,          \* the combined files written (each: the clips in it)
    log_file,              \* the logs written (each: the entries in it)
    exit_status,           \* <<>> while running, then <<main's return value>>
    first_parse            \* history: <<>>, or <<the parse whose result is parsed again>>

options == <<text, split_by_headers, split_by_punctuation, min_segment_length>>

parseVars == <<segments, first_stage, result, idx>>

runVars == <<current_header, segment_files, entries, disk, calls, final_output,
             log_file, exit_status>>

vars == <<options, pc, parseVars, runVars, first_parse>>

\* The options a run is started with.
InitOptions ==
    /\ split_by_headers \in BOOLEAN
    /\ split_by_punctuation \in BOOLEAN
    /\ \/ text \in Texts /\ min_segment_length \in 0..MaxMin
       \/ text \in ScenarioTexts /\ min_segment_length \in ScenarioMins

InitLocals ==
    /\ segments = <<>>
    /\ first_stage = <<>>
    /\ result = <<>>
    /\ idx = 0
    /\ current_header = None
    /\ segment_files = <<>>
    /\ entries = <<>>
    /\ disk = {}
    /\ calls = <<>>
    /\ final_output = <<>>
    /\ log_file = <<>>
    /\ exit_status = <<>>
    /\ first_parse = <<>>

(***************************************************************************)
(* TextParser.parse, called on its own.                                    *)
(***************************************************************************)
Init ==
    /\ InitOptions
    /\ InitLocals
    /\ pc = "parse"

\* "if not text.strip(): return []"
ParseBlank ==
    /\ pc = "parse"
    /\ IsBlank(text)
    /\ segments' = <<>>
    /\ pc' = "returned"
    /\ UNCHANGED <<first_parse, options, first_stage, result, idx, runVars>>

\* The first stage: header splitting, or the whole text as one segment.
ParseFirstStage ==
    /\ pc = "parse"
    /\ ~IsBlank(text)
    /\ segments' = FirstStage(text, split_by_headers)
    /\ first_stage' = segments'
    /\ result' = <<>>
    /\ idx' = 0
    /\ pc' = IF split_by_punctuation THEN "punctuation" ELSE "filter"
    /\ UNCHANGED <<first_parse, options, runVars>>

\* One iteration of the loop of _split_by_punctuation.
PunctIteration ==
    /\ pc = "punctuation"
    /\ idx < Len(segments)
    /\ result' = PunctSegment(result, segments[idx + 1], min_segment_length)
    /\ idx' = idx + 1
    /\ UNCHANGED <<first_parse, options, pc, segments, first_stage, runVars>>

\* "return result", assigned to segments by parse.
PunctReturn ==
    /\ pc = "punctuation"
    /\ idx = Len(segments)
    /\ segments' = result
    /\ pc' = "filter"
    /\ UNCHANGED <<first_parse, options, first_stage, result, idx, runVars>>

\* The minimum-length filter, and parse's return.
ParseFilter ==
    /\ pc = "filter"
    /\ segments' = FilterShort(segments, min_segment_length)
    /\ pc' = "returned"
    /\ UNCHANGED <<first_parse, options, first_stage, result, idx, runVars>>

Next ==
    \/ ParseBlank
    \/ ParseFirstStage
    \/ PunctIteration
    \/ PunctReturn
    \/ ParseFilter

Spec == Init /\ [][Next]_vars

(***************************************************************************)
(* TTSLogger (src/logger.py).  An entry's timestamp is left out: no        *)
(* operation of the pipeline reads it.  An Optional field is <<>> for None *)
(* and <<v>> for the value v.  A message is the text the f-string builds,  *)
(* kept as its parts: the kind of line, the header and the number in it.   *)
(***************************************************************************)
LogEntry(message, duration_seconds, segment_path) ==
    [message |-> message, duration_seconds |-> duration_seconds,
     segment_path |-> segment_path]

Message(kind, header, n) == [kind |-> kind, header |-> header, n |-> n]

\* log_header: "# {header}"
LogHeader(es, header) ==
    Append(es, LogEntry(Message("header", header, 0), <<>>, <<>>))

\* log_segment_start that records nothing.
LogSegmentStart_Silent(es, segment_text, header) == es

\* log_segment_start: "Segment started", and " (under header: ...)" when the
\* header is neither None nor empty.
LogSegmentStart(es, segment_text, header) ==
    Append(es, LogEntry(Message("segment_start",
                                IF header # None /\ header # <<>> THEN header
                                ELSE None, 0),
                        <<>>, <<>>))

\* log_segment_end: "Segment finished (duration: ...)"
LogSegmentEnd(es, duration_seconds, segment_path) ==
    Append(es, LogEntry(Message("segment_end", None, duration_seconds),
                        <<duration_seconds>>, <<segment_path>>))

\* log_info(message)
LogInfo(es, kind, n) == Append(es, LogEntry(Message(kind, None, n), <<>>, <<>>))

(***************************************************************************)
(* combine_audio_files (src/main.py).                                      *)
(***************************************************************************)
\* The concat list: the files that exist, in the order given.
ConcatList(files, on_disk) == SelectSeq(files, LAMBDA f : f \in on_disk)

\* The call without its "if not segment_files: raise ValueError".
CombineRaises_NoEmptyCheck(files, ffmpeg_ok) == ~ffmpeg_ok

\* Whether the call raises: ValueError on an empty list, or ffmpeg's error.
CombineRaises(files, ffmpeg_ok) == files = <<>> \/ ~ffmpeg_ok

(***************************************************************************)
(* process_text and main (src/main.py).                                    *)
(***************************************************************************)
\* main's return values.
ExitOk == 0

ExitError == 1

ExitInterrupted == 130

\* The clip of the segment with enumerate index i: segment_{i:04d}.wav.
SegmentPath(i) == i

\* "if not segment_files"
NoSegments(files) == files = <<>>

\* The path put at the head of the list: insert(0, ...) for append.
FilesOnSuccess_Prepend(files, segment_path) == <<segment_path>> \o files

\* The path appended before the synthesis is tried.
FilesOnFailure_Append(files, segment_path) == Append(files, segment_path)

\* segment_files after a synthesis that succeeded / that raised.
FilesOnSuccess(files, segment_path) == Append(files, segment_path)

FilesOnFailure(files, segment_path) == files

\* A call of a collaborator, as the history records it.
Call(op, i, ok, files) == [op |-> op, i |-> i, ok |-> ok, files |-> files]

\* The durations a synthesis may return.
MaxDuration == 1

\* The documents main is run on have at most MaxRunLines lines of LinePool.
MaxRunLines == 2

\* combine_audio_files is called on at most MaxFiles paths out of 0..MaxPath.
MaxFiles == 2

MaxPath == 1

RunMins == {0, 3}

\* main() is entered, or combine_audio_files is called by another caller.
InitRun ==
    /\ InitLocals
    /\ split_by_headers \in BOOLEAN
    /\ split_by_punctuation \in BOOLEAN
    /\ pc = "main"
    /\ text \in Documents(MaxRunLines) \cup {<<>>}
    /\ min_segment_length \in RunMins

InitCombine ==
    /\ text = <<>>
    /\ split_by_headers = TRUE
    /\ split_by_punctuation = TRUE
    /\ min_segment_length = DefaultMinSegmentLength
    /\ pc = "combine"
    /\ segments = <<>>
    /\ first_stage = <<>>
    /\ result = <<>>
    /\ idx = 0
    /\ current_header = None
    /\ segment_files \in UNION {[1..k -> 0..MaxPath] : k \in 0..MaxFiles}
    /\ entries = <<>>
    /\ disk \in SUBSET (0..MaxPath)
    /\ calls = <<>>
    /\ final_output = <<>>
    /\ log_file = <<>>
    /\ exit_status = <<>>
    /\ first_parse = <<>>

\* load_config, read_input_text or TTSEngine(config) raises: main's
\* "except Exception" returns 1.
MainFails ==
    /\ pc = "main"
    /\ pc' = "exit"
    /\ exit_status' = <<ExitError>>
    /\ UNCHANGED <<first_parse, options, parseVars, current_header, segment_files, entries,
                   disk, calls, final_output, log_file>>

\* process_text up to its loop: the logger is started and the text parsed.
ProcessTextBegin ==
    /\ pc = "main"
    /\ segments' = Parse(text, split_by_headers, split_by_punctuation,
                         min_segment_length)
    /\ entries' = LogInfo(LogInfo(<<>>, "info_parsing", 0),
                          "info_parsed", Len(segments'))
    /\ segment_files' = <<>>
    /\ current_header' = None
    /\ idx' = 0
    /\ pc' = "loop"
    /\ UNCHANGED <<first_parse, options, first_stage, result, disk, calls, final_output,
                   log_file, exit_status>>

\* An iteration on a header segment.
LoopHeader ==
    /\ pc = "loop"
    /\ idx < Len(segments)
    /\ segments[idx + 1].is_header
    /\ entries' = LogHeader(entries, segments[idx + 1].text)
    /\ current_header' = segments[idx + 1].text
    /\ idx' = idx + 1
    /\ UNCHANGED <<first_parse, options, pc, segments, first_stage, result, segment_files,
                   disk, calls, final_output, log_file, exit_status>>

\* An iteration on a content segment whose synthesis returns a duration.
LoopSynthesized ==
    /\ pc = "loop"
    /\ idx < Len(segments)
    /\ ~segments[idx + 1].is_header
    /\ \E duration \in 1..MaxDuration :
           entries' = LogSegmentEnd(
                          LogSegmentStart(entries, segments[idx + 1].text,
                                          current_header),
                          duration, SegmentPath(idx))
    /\ calls' = Append(calls, Call("synthesize", idx, TRUE, <<>>))
    /\ disk' = disk \cup {SegmentPath(idx)}
    /\ segment_files' = FilesOnSuccess(segment_files, SegmentPath(idx))
    /\ idx' = idx + 1
    /\ UNCHANGED <<first_parse, options, pc, segments, first_stage, result, current_header,
                   final_output, log_file, exit_status>>

\* An iteration on a content segment whose synthesis raises: "except
\* Exception" logs the error and continues.  (Whether a partial clip is left
\* on disk is not modelled: its path is in no list.)
LoopSynthesisFails ==
    /\ pc = "loop"
    /\ idx < Len(segments)
    /\ ~segments[idx + 1].is_header
    /\ entries' = LogInfo(LogSegmentStart(entries, segments[idx + 1].text,
                                          current_header),
                          "info_error", idx)
    /\ calls' = Append(calls, Call("synthesize", idx, FALSE, <<>>))
    /\ segment_files' = FilesOnFailure(segment_files, SegmentPath(idx))
    /\ idx' = idx + 1
    /\ UNCHANGED <<first_parse, options, pc, segments, first_stage, result, current_header,
                   disk, final_output, log_file, exit_status>>

\* KeyboardInterrupt during the loop: it is no Exception, so it ends
\* process_text and main returns 130.
Interrupted ==
    /\ pc = "loop"
    /\ pc' = "exit"
    /\ exit_status' = <<ExitInterrupted>>
    /\ UNCHANGED <<first_parse, options, parseVars, current_header, segment_files, entries,
                   disk, calls, final_output, log_file>>

\* KeyboardInterrupt while synthesize runs: the segment start is logged
\* already, nothing follows it, and main returns 130.
InterruptedInSynthesis ==
    /\ pc = "loop"
    /\ idx < Len(segments)
    /\ ~segments[idx + 1].is_header
    /\ entries' = LogSegmentStart(entries, segments[idx + 1].text,
                                  current_header)
    /\ calls' = Append(calls, Call("interrupted", idx, FALSE, <<>>))
    /\ pc' = "exit"
    /\ exit_status' = <<ExitInterrupted>>
    /\ UNCHANGED <<first_parse, options, parseVars, current_header,
                   segment_files, disk, final_output, log_file>>

\* "return segment_files, logger"
ProcessTextReturn ==
    /\ pc = "loop"
    /\ idx = Len(segments)
    /\ pc' = "processed"
    /\ UNCHANGED <<first_parse, options, parseVars, runVars>>

\* "No audio segments were generated. Exiting."
MainNoSegments ==
    /\ pc = "processed"
    /\ NoSegments(segment_files)
    /\ pc' = "exit"
    /\ exit_status' = <<ExitError>>
    /\ UNCHANGED <<first_parse, options, parseVars, current_header, segment_files, entries,
                   disk, calls, final_output, log_file>>

\* main calls combine_audio_files, which writes the output or raises; the
\* exception is caught by "except Exception" and main returns 1.
MainCombine ==
    /\ pc = "processed"
    /\ ~NoSegments(segment_files)
    /\ \E ffmpeg_ok \in BOOLEAN :
           /\ calls' = Append(calls, Call("combine", 0,
                                          ~CombineRaises(segment_files, ffmpeg_ok),
                                          segment_files))
           /\ IF CombineRaises(segment_files, ffmpeg_ok)
              THEN /\ pc' = "exit"
                   /\ exit_status' = <<ExitError>>
                   /\ UNCHANGED final_output
              ELSE /\ pc' = "combined"
                   /\ final_output' =
                          Append(final_output, ConcatList(segment_files, disk))
                   /\ UNCHANGED exit_status
    /\ UNCHANGED <<first_parse, options, parseVars, current_header, segment_files, entries,
                   disk, log_file>>

\* "Write log file": log_info, write_log (which writes unless there is no
\* entry), and return 0.
MainWriteLog ==
    /\ pc = "combined"
    /\ entries' = LogInfo(entries, "info_final", 0)
    /\ log_file' = IF entries' = <<>> THEN log_file
                   ELSE Append(log_file, entries')
    /\ calls' = Append(calls, Call("write_log", 0, TRUE, <<>>))
    /\ pc' = "exit"
    /\ exit_status' = <<ExitOk>>
    /\ UNCHANGED <<first_parse, options, parseVars, current_header, segment_files, disk,
                   final_output>>

\* combine_audio_files, called on its own.
CombineCall ==
    /\ pc = "combine"
    /\ \E ffmpeg_ok \in BOOLEAN :
           IF CombineRaises(segment_files, ffmpeg_ok)
           THEN /\ pc' = "combine_raised"
                /\ UNCHANGED final_output
           ELSE /\ pc' = "combine_returned"
                /\ final_output' =
                       Append(final_output, ConcatList(segment_files, disk))
    /\ UNCHANGED <<first_parse, options, parseVars, current_header, segment_files, entries,
                   disk, calls, log_file, exit_status>>

NextRun ==
    \/ MainFails
    \/ ProcessTextBegin
    \/ LoopHeader
    \/ LoopSynthesized
    \/ LoopSynthesisFails
    \/ Interrupted
    \/ InterruptedInSynthesis
    \/ ProcessTextReturn
    \/ MainNoSegments
    \/ MainCombine
    \/ MainWriteLog
    \/ CombineCall

SpecRun == (InitRun \/ InitCombine) /\ [][NextRun]_vars

(***************************************************************************)
(* TextParser.parse, called a second time by the same parser on the text   *)
(* of a content segment the first call returned.                           *)
(***************************************************************************)
\* Header lines and single sentences, bare and padded with spaces.
HeaderLines == {<<"#", " ", "h">>, <<"#", "#", " ", "H", "e", "a", "d">>,
                <<"#", " ", " ", "h", " ">>}

SentenceLines == {<<"x", "y", "z">>, <<"D", "o", "n", "e", ".">>,
                  <<"a", ".", "b">>, <<"a", " ", "b", "?">>,
                  <<" ", "p", "a", "d", ".", " ">>}

SegmentedTexts == {JoinLines(<<h, c>>) : h \in HeaderLines, c \in SentenceLines}

InitReparse ==
    /\ text \in SegmentedTexts \cup Documents(MaxRunLines)
    /\ split_by_headers \in BOOLEAN
    /\ split_by_punctuation \in BOOLEAN
    /\ min_segment_length \in RunMins
    /\ InitLocals
    /\ pc = "parse"

\* "parser.parse(segment.text)" for a content segment of the result.
Reparse ==
    /\ pc = "returned"
    /\ first_parse = <<>>
    /\ \E k \in 1..Len(segments) :
           /\ ~segments[k].is_header
           /\ text' = segments[k].text
           /\ first_parse' = <<[text |-> text, segments |-> segments, k |-> k]>>
    /\ segments' = <<>>
    /\ first_stage' = <<>>
    /\ result' = <<>>
    /\ idx' = 0
    /\ pc' = "parse"
    /\ UNCHANGED <<split_by_headers, split_by_punctuation, min_segment_length,
                   runVars>>

NextReparse ==
    \/ Next
    \/ Reparse

SpecReparse == InitReparse /\ [][NextReparse]_vars

(***************************************************************************)
(* What the claims speak of, stated on the document itself rather than by  *)
(* the parser's loops.                                                     *)
(***************************************************************************)
\* A segment as the code holds it: without the history field.
Fields(s) == [text |-> s.text, header |-> s.header, is_header |-> s.is_header]

FieldsOf(ss) == [k \in 1..Len(ss) |-> Fields(ss[k])]

\* s without its whitespace.
NonSpace(s) == SelectSeq(s, LAMBDA c : ~IsSpace(c))

\* The texts of the segments, concatenated in order.
RECURSIVE ConcatTexts(_)
ConcatTexts(ss) ==
    IF ss = <<>> THEN <<>> ELSE ss[1].text \o ConcatTexts(Tail(ss))

\* a is b with some characters left out.
RECURSIVE IsSubsequence(_, _)
IsSubsequence(a, b) ==
    IF a = <<>> THEN TRUE
    ELSE IF b = <<>> THEN FALSE
    ELSE IF a[1] = b[1] THEN IsSubsequence(Tail(a), Tail(b))
    ELSE IsSubsequence(a, Tail(b))

IsPrefix(a, b) == Len(a) <= Len(b) /\ SubSeq(b, 1, Len(a)) = a

IsSuffix(a, b) ==
    Len(a) <= Len(b) /\ SubSeq(b, Len(b) - Len(a) + 1, Len(b)) = a

\* The number of '#' of a header line: 1 to 6 of them, then whitespace, then
\* text.  The set is empty for a line that is no header.
HeaderMarks(line) ==
    LET s == Strip(line)
    IN  {k \in 1..6 : /\ k + 2 <= Len(s)
                      /\ \A j \in 1..k : s[j] = "#"
                      /\ IsSpace(s[k + 1])
                      /\ \E j \in (k + 2)..Len(s) : ~IsSpace(s[j])}

IsHeaderLine(line) == HeaderMarks(line) # {}

\* The text of a header line: what follows the marker, trimmed.
HeaderTextOf(line) ==
    Strip(Tail_(Strip(line), (CHOOSE k \in HeaderMarks(line) : TRUE) + 2))

\* The text of the nearest header line before line n; None without one.
NearestHeader(lines, n) ==
    LET hs == {j \in 1..(n - 1) : j <= Len(lines) /\ IsHeaderLine(lines[j])}
    IN  IF hs = {} THEN None ELSE HeaderTextOf(lines[SetMax(hs)])

\* The lines from line n to the next header line (or the end), joined.
SectionFrom(lines, n) ==
    LET hs == {j \in n..Len(lines) : IsHeaderLine(lines[j])}
        last == IF hs = {} THEN Len(lines) ELSE SetMin(hs) - 1
    IN  JoinLines(SubSeq(lines, n, last))

\* The content of a document, whitespace apart: every line, a header line
\* without its marker.
RECURSIVE ContentOf(_)
ContentOf(lines) ==
    IF lines = <<>> THEN <<>>
    ELSE (IF IsHeaderLine(lines[1]) THEN NonSpace(HeaderTextOf(lines[1]))
          ELSE NonSpace(lines[1])) \o ContentOf(Tail(lines))

\* Where a sentence ends: punctuation that whitespace follows.
SplitPoints(t) == {e \in 1..(Len(t) - 1) : IsPunct(t[e]) /\ IsSpace(t[e + 1])}

\* The candidate sentence that ends at split point e: from the split point
\* before it, trimmed.
SentenceAt(t, e) ==
    LET before == {d \in SplitPoints(t) : d < e}
    IN  Strip(SubSeq(t, IF before = {} THEN 1 ELSE SetMax(before) + 1, e))

\* The text after the last split point, trimmed.
TrailingRemainder(t) ==
    Strip(IF SplitPoints(t) = {} THEN t ELSE Tail_(t, SetMax(SplitPoints(t)) + 1))

\* The split points of t whose sentence is long enough to be emitted.
KeptPoints(t, min) == {e \in SplitPoints(t) : Len(SentenceAt(t, e)) >= min}

ContentIndices(ss) == {k \in 1..Len(ss) : ~ss[k].is_header}

HeaderIndices(ss) == {k \in 1..Len(ss) : ss[k].is_header}

Returned == pc = "returned"

(***************************************************************************)
(* C1.  Every segment parse returns, header or content, merged or not, has *)
(* a trimmed text of at least min_segment_length characters.               *)
(***************************************************************************)
C1_MinLength ==
    Returned =>
        \A k \in 1..Len(segments) :
            Len(Strip(segments[k].text)) >= min_segment_length

\* A merged remainder: a blank after sentence punctuation survives only in
\* a text that a short remainder was appended to.
IsMerged(t) == SplitPoints(t) # {}

\* parse returned a header segment and a content segment that received a
\* short remainder, under a positive minimum.
C1_Witness ==
    /\ Returned
    /\ split_by_punctuation
    /\ min_segment_length >= 3
    /\ HeaderIndices(segments) # {}
    /\ \E k \in ContentIndices(segments) : IsMerged(segments[k].text)

(***************************************************************************)
(* C2.  The scenario "# Intro / Hello world. This is a test sentence that  *)
(* is long enough." with both splits and min_segment_length = 10.          *)
(***************************************************************************)
IntroHeader ==
    <<"I", "n", "t", "r", "o">>

IntroFirst ==
    <<"H", "e", "l", "l", "o", " ", "w", "o", "r", "l", "d", ".">>

IntroSecond ==
    <<"T", "h", "i", "s", " ", "i", "s", " ", "a", " ", "t", "e", "s", "t",
      " ", "s", "e", "n", "t", "e", "n", "c", "e", " ", "t", "h", "a", "t",
      " ", "i", "s", " ", "l", "o", "n", "g", " ", "e", "n", "o", "u", "g",
      "h", ".">>

IntroScenario ==
    /\ Returned
    /\ text = IntroText
    /\ split_by_headers
    /\ split_by_punctuation
    /\ min_segment_length = 10

\* As claimed: the header segment and the two sentences.
C2_IntroThreeSegments ==
    IntroScenario =>
        FieldsOf(segments) =
            << [text |-> IntroHeader, header |-> IntroHeader, is_header |-> TRUE],
               [text |-> IntroFirst, header |-> IntroHeader, is_header |-> FALSE],
               [text |-> IntroSecond, header |-> IntroHeader, is_header |-> FALSE] >>

\* C2 as amended: the two sentences, both under header "Intro"; the header
\* segment "Intro" (5 characters, fewer than 10) is removed by the filter.
C2_IntroTwoSegments ==
    IntroScenario =>
        FieldsOf(segments) =
            << [text |-> IntroFirst, header |-> IntroHeader, is_header |-> FALSE],
               [text |-> IntroSecond, header |-> IntroHeader, is_header |-> FALSE] >>

C2_Witness == IntroScenario /\ Len(segments) = 2

(***************************************************************************)
(* C3.  With split_by_headers, a returned content segment is filed under   *)
(* the nearest header line before its content (None without one), whether  *)
(* or not that header's own segment survived the filter; its text comes    *)
(* from the section that starts at its line; a header segment's header is  *)
(* its text.                                                               *)
(***************************************************************************)
C3_NearestHeader ==
    (Returned /\ split_by_headers) =>
        \A k \in 1..Len(segments) :
            LET s == segments[k]
                lines == SplitLines(text)
            IN  IF s.is_header
                THEN /\ s.header = s.text
                     /\ IsHeaderLine(lines[s.line])
                     /\ s.text = HeaderTextOf(lines[s.line])
                ELSE /\ s.header = NearestHeader(lines, s.line)
                     /\ ~IsHeaderLine(lines[s.line])
                     /\ IsSubsequence(NonSpace(s.text),
                                      NonSpace(SectionFrom(lines, s.line)))

\* A content segment is returned under a header whose own segment the
\* filter removed, after another header.
C3_Witness ==
    /\ Returned
    /\ split_by_headers
    /\ \E k \in ContentIndices(segments) :
           /\ segments[k].header # None
           /\ \A j \in HeaderIndices(segments) :
                  segments[j].text # segments[k].header
           /\ \E j \in HeaderIndices(segments) : j < k

(***************************************************************************)
(* C4.  The returned texts, concatenated in order and whitespace apart,    *)
(* hold only characters of the document in their order; with               *)
(* min_segment_length = 0 they are the whole content: every character that *)
(* is not whitespace, but the markers of the header lines.                 *)
(***************************************************************************)
C4_NothingInvented ==
    Returned =>
        LET got == NonSpace(ConcatTexts(segments))
        IN  /\ IsSubsequence(got, NonSpace(text))
            /\ min_segment_length = 0 =>
                   got = IF split_by_headers THEN ContentOf(SplitLines(text))
                         ELSE NonSpace(text)

\* Nothing is filtered, and parse returned a header and two sentences.
C4_Witness ==
    /\ Returned
    /\ min_segment_length = 0
    /\ split_by_headers
    /\ split_by_punctuation
    /\ HeaderIndices(segments) # {}
    /\ Cardinality(ContentIndices(segments)) >= 2

\* A short remainder was merged, after a sentence was dropped.
C4_MergeReached ==
    /\ Returned
    /\ \E k \in ContentIndices(segments) : IsMerged(segments[k].text)
    /\ NonSpace(ConcatTexts(segments)) # NonSpace(text)

(***************************************************************************)
(* C5.  The remainder rule, at one iteration of punctuation splitting on a *)
(* content segment: a remainder of at least min_segment_length characters  *)
(* is emitted as a segment; a shorter one is appended, after one blank, to *)
(* the last segment emitted so far when there is one and it is no header;  *)
(* without one it is emitted as a segment all the same.                    *)
(***************************************************************************)
C5_Step ==
    LET seg == segments[idx + 1]
        rem == TrailingRemainder(seg.text)
        kept == Cardinality(KeptPoints(seg.text, min_segment_length))
        n == Len(result')
        own == [text |-> rem, header |-> seg.header, is_header |-> FALSE]
    IN  (rem # <<>>) =>
            IF Len(rem) >= min_segment_length
            THEN /\ n = Len(result) + kept + 1
                 /\ Fields(result'[n]) = own
            ELSE IF kept > 0
            THEN /\ n = Len(result) + kept
                 /\ ~result'[n].is_header
                 /\ result'[n].text =
                        SentenceAt(seg.text,
                                   SetMax(KeptPoints(seg.text, min_segment_length)))
                            \o <<" ">> \o rem
            ELSE IF result # <<>> /\ ~result[Len(result)].is_header
            THEN /\ n = Len(result)
                 /\ result'[n].text = result[n].text \o <<" ">> \o rem
            ELSE /\ n = Len(result) + 1
                 /\ Fields(result'[n]) = own

C5_RemainderRule ==
    [][(pc = "punctuation" /\ idx' = idx + 1 /\ ~segments[idx + 1].is_header)
           => C5_Step]_vars

\* The iteration just run merged a short remainder into a kept sentence,
\* and an earlier iteration emitted a short remainder as a segment, for want
\* of a segment to append it to.
C5_Witness ==
    /\ pc = "punctuation"
    /\ idx >= 2
    /\ min_segment_length >= 2
    /\ ~segments[idx].is_header
    /\ LET rem == TrailingRemainder(segments[idx].text)
       IN  /\ rem # <<>>
           /\ Len(rem) < min_segment_length
           /\ KeptPoints(segments[idx].text, min_segment_length) # {}
           /\ IsSuffix(<<" ">> \o rem, result[Len(result)].text)
    /\ \E k \in 1..Len(result) :
           /\ k = 1 \/ result[k - 1].is_header
           /\ ~result[k].is_header
           /\ Len(result[k].text) < min_segment_length

(***************************************************************************)
(* C6.  The boundary: a candidate sentence of exactly min_segment_length   *)
(* characters is returned as a segment (alone, or with the short remainder *)
(* appended); a candidate one character shorter is never returned as a     *)
(* segment, and when it is the remainder and a sentence of its section was *)
(* kept, it ends that sentence's segment.                                  *)
(***************************************************************************)
\* The candidates of a first-stage content segment: its sentences, and its
\* remainder unless empty.
Candidates(t) ==
    {SentenceAt(t, e) : e \in SplitPoints(t)}
        \cup (IF TrailingRemainder(t) = <<>> THEN {} ELSE {TrailingRemainder(t)})

C6_Boundary ==
    (Returned /\ split_by_punctuation) =>
        \A h \in ContentIndices(first_stage) :
            LET t == first_stage[h].text
                rem == TrailingRemainder(t)
            IN  \A c \in Candidates(t) :
                    /\ Len(c) = min_segment_length =>
                           \E k \in ContentIndices(segments) :
                               /\ segments[k].line = first_stage[h].line
                               /\ segments[k].header = first_stage[h].header
                               /\ \/ segments[k].text = c
                                  \/ /\ Len(rem) < min_segment_length
                                     /\ segments[k].text = c \o <<" ">> \o rem
                    /\ Len(c) + 1 = min_segment_length =>
                           /\ \A k \in 1..Len(segments) : segments[k].text # c
                           /\ (c = rem /\ KeptPoints(t, min_segment_length) # {}) =>
                                  \E k \in ContentIndices(segments) :
                                      /\ segments[k].line = first_stage[h].line
                                      /\ IsSuffix(<<" ">> \o c, segments[k].text)

\* One section holds a sentence of exactly the minimum, a sentence one
\* character shorter, and a remainder one character shorter.
C6_Witness ==
    /\ Returned
    /\ split_by_punctuation
    /\ min_segment_length >= 2
    /\ \E h \in ContentIndices(first_stage) :
           LET t == first_stage[h].text
           IN  /\ \E e \in SplitPoints(t) :
                      Len(SentenceAt(t, e)) = min_segment_length
               /\ \E e \in SplitPoints(t) :
                      Len(SentenceAt(t, e)) + 1 = min_segment_length
    /\ \E h \in ContentIndices(first_stage) :
           LET t == first_stage[h].text
           IN  /\ Len(TrailingRemainder(t)) + 1 = min_segment_length
               /\ KeptPoints(t, min_segment_length) # {}

(***************************************************************************)
(* C10.  A text that is empty or holds only whitespace parses to the empty *)
(* sequence, whatever the options.                                         *)
(***************************************************************************)
OnlyWhitespace(t) == \A k \in 1..Len(t) : IsSpace(t[k])

C10_BlankIsEmpty ==
    (Returned /\ OnlyWhitespace(text)) => segments = <<>>

\* parse returned for a text of blanks and line breaks with both splits off
\* and no minimum: the options under which a blank segment would survive.
C10_Witness ==
    /\ Returned
    /\ OnlyWhitespace(text)
    /\ Len(text) >= 2
    /\ ~split_by_headers
    /\ ~split_by_punctuation
    /\ min_segment_length = 0

(***************************************************************************)
(* The history of a run.                                                   *)
(***************************************************************************)
\* The enumerate indices of the content segments, in order.
ContentOrder(ss) ==
    SelectSeq([k \in 1..Len(ss) |-> k - 1], LAMBDA i : ~ss[i + 1].is_header)

SynthesisCalls == SelectSeq(calls, LAMBDA c : c.op = "synthesize")

IndicesOf(cs) == [k \in 1..Len(cs) |-> cs[k].i]

PathsOf(cs) == [k \in 1..Len(cs) |-> SegmentPath(cs[k].i)]

\* The positions in the history of the calls of one collaborator.
CallsOf(op) == {k \in 1..Len(calls) : calls[k].op = op}

(***************************************************************************)
(* C7.  When process_text returns, every content segment has had exactly   *)
(* one synthesis call, in segment order, whether or not an earlier call    *)
(* failed; each failure is logged; and the returned clip paths are those   *)
(* of the segments whose synthesis succeeded, in segment order.            *)
(***************************************************************************)
C7_FailuresSkipped ==
    pc = "processed" =>
        /\ IndicesOf(SynthesisCalls) = ContentOrder(segments)
        /\ segment_files = PathsOf(SelectSeq(SynthesisCalls, LAMBDA c : c.ok))
        /\ LET errors == SelectSeq(entries,
                                   LAMBDA e : e.message.kind = "info_error")
           IN  [k \in 1..Len(errors) |-> errors[k].message.n]
                   = IndicesOf(SelectSeq(SynthesisCalls, LAMBDA c : ~c.ok))

\* process_text returned after a success, then a failure, then a success.
C7_Witness ==
    /\ pc = "processed"
    /\ \E a, b, c \in 1..Len(SynthesisCalls) :
           /\ a < b
           /\ b < c
           /\ SynthesisCalls[a].ok
           /\ ~SynthesisCalls[b].ok
           /\ SynthesisCalls[c].ok

(***************************************************************************)
(* C8.  With no clip generated the run is fatal: no combined output is     *)
(* ever written, and main exits with a status other than 0.  And           *)
(* combine_audio_files, given an empty list, raises and writes nothing.    *)
(***************************************************************************)
C8_ZeroClipsFatal ==
    segment_files = <<>> =>
        /\ final_output = <<>>
        /\ pc \notin {"combined", "combine_returned"}
        /\ pc = "exit" => (exit_status # <<>> /\ exit_status[1] # ExitOk)

\* main has exited after every synthesis of two or more segments failed.
C8_Witness ==
    /\ pc = "exit"
    /\ exit_status = <<ExitError>>
    /\ segment_files = <<>>
    /\ idx = Len(segments)
    /\ Len(SynthesisCalls) >= 2

\* combine_audio_files was called on the empty list and raised.
C8_EmptyCombineReached ==
    pc = "combine_raised" /\ segment_files = <<>>

\* main has exited on a parse result without a content segment.
C8_NothingParsedReached ==
    /\ pc = "exit"
    /\ idx = Len(segments)
    /\ entries # <<>>
    /\ SynthesisCalls = <<>>

(***************************************************************************)
(* C9.  The pipeline is sequential: the synthesis calls come one per       *)
(* content segment in segment order, all of them before the combination    *)
(* call; the combiner is called at most once, on the clip paths in segment *)
(* order; the log is written at most once, after a combination call that   *)
(* returned.                                                               *)
(***************************************************************************)
C9_Sequential ==
    /\ Cardinality(CallsOf("combine")) <= 1
    /\ Cardinality(CallsOf("write_log")) <= 1
    /\ Len(log_file) = Cardinality(CallsOf("write_log"))
    /\ \A k \in CallsOf("synthesize") :
           /\ \A j \in CallsOf("combine") \cup CallsOf("write_log") : k < j
           /\ \A j \in CallsOf("synthesize") :
                  k < j => calls[k].i < calls[j].i
    /\ \A j \in CallsOf("combine") :
           /\ IndicesOf(SynthesisCalls) = ContentOrder(segments)
           /\ calls[j].files = PathsOf(SelectSeq(SynthesisCalls, LAMBDA c : c.ok))
    /\ \A l \in CallsOf("write_log") :
           /\ \E j \in CallsOf("combine") : j < l /\ calls[j].ok
           /\ final_output # <<>>

\* A run has ended with status 0 and its log written, after three syntheses
\* of which one failed.
C9_Witness ==
    /\ pc = "exit"
    /\ exit_status = <<ExitOk>>
    /\ Len(log_file) = 1
    /\ Len(SynthesisCalls) >= 3
    /\ \E k \in 1..Len(SynthesisCalls) : ~SynthesisCalls[k].ok
    /\ Len(final_output[1]) >= 2

\* A run has ended on a combination that raised: no log.
C9_CombineFailedReached ==
    /\ pc = "exit"
    /\ CallsOf("combine") # {}
    /\ final_output = <<>>
    /\ log_file = <<>>

(***************************************************************************)
(* C11.  The scenario "A. B. C." without header splitting, with            *)
(* punctuation splitting and min_segment_length = 1: the three sentences   *)
(* in order, each a content segment without header.                        *)
(***************************************************************************)
ABCScenario ==
    /\ Returned
    /\ text = ABCText
    /\ ~split_by_headers
    /\ split_by_punctuation
    /\ min_segment_length = 1

C11_ABCThreeSentences ==
    ABCScenario =>
        FieldsOf(segments) =
            << [text |-> <<"A", ".">>, header |-> None, is_header |-> FALSE],
               [text |-> <<"B", ".">>, header |-> None, is_header |-> FALSE],
               [text |-> <<"C", ".">>, header |-> None, is_header |-> FALSE] >>

\* parse returned in the scenario, from the one segment "A. B. C." of the
\* first stage.
C11_Witness ==
    /\ ABCScenario
    /\ FieldsOf(first_stage) =
           << [text |-> ABCText, header |-> None, is_header |-> FALSE] >>
    /\ Len(segments) = 3

(***************************************************************************)
(* C13.  No segment parse returns has a text that is empty once trimmed,   *)
(* under any options, min_segment_length = 0 included.                     *)
(***************************************************************************)
C13_NoEmptyText ==
    Returned => \A k \in 1..Len(segments) : Strip(segments[k].text) # <<>>

\* Nothing is filtered, and parse returned segments for a text with a blank
\* line, a line of markers without text, or whitespace at either end: the
\* places an empty text could come from.
C13_Witness ==
    /\ Returned
    /\ min_segment_length = 0
    /\ segments # <<>>
    /\ \/ \E k \in 1..Len(SplitLines(text)) :
              LET l == Strip(SplitLines(text)[k])
              IN  l = <<>> \/ (l # <<>> /\ HashRun(l) = Len(l))
       \/ Strip(text) # text

(***************************************************************************)
(* C16.  A merge never crosses a header boundary.  An iteration of         *)
(* punctuation splitting leaves the segments emitted before it as they     *)
(* are, and the segments it emits carry the header of the segment it       *)
(* splits and text of that segment only; so a returned content segment     *)
(* holds text of one first-stage segment, the one under its own header.    *)
(***************************************************************************)
\* s is made of text of the first-stage segment f, and filed as f is.
MadeFrom(s, f) ==
    /\ s.is_header = f.is_header
    /\ s.header = f.header
    /\ s.line = f.line
    /\ IsSubsequence(NonSpace(s.text), NonSpace(f.text))

C16_Step ==
    /\ IsPrefix(result, result')
    /\ \A k \in (Len(result) + 1)..Len(result') :
           MadeFrom(result'[k], segments[idx + 1])

C16_Returned ==
    Returned =>
        /\ \A k \in 1..Len(segments) :
               \E h \in 1..Len(first_stage) : MadeFrom(segments[k], first_stage[h])
        /\ \A j, k \in 1..Len(first_stage) :
               (j < k /\ ~first_stage[j].is_header /\ ~first_stage[k].is_header)
                   => \E m \in (j + 1)..(k - 1) : first_stage[m].is_header

C16_NoCrossMerge ==
    /\ []C16_Returned
    /\ [][(pc = "punctuation" /\ idx' = idx + 1) => C16_Step]_vars

\* Punctuation splitting has emitted a content segment, a header, and after
\* it a short remainder as a segment of its own: the remainder was not
\* appended across the header.
C16_Witness ==
    /\ pc = "punctuation"
    /\ \E k \in 3..Len(result) :
           /\ ~result[k - 2].is_header
           /\ result[k - 1].is_header
           /\ ~result[k].is_header
           /\ Len(result[k].text) < min_segment_length
           /\ result[k].header # result[k - 2].header

(***************************************************************************)
(* C12.  Idempotence.  A text made of one header line and one single       *)
(* sentence (no sentence punctuation followed by whitespace inside it),    *)
(* parsed with header splitting and min_segment_length = 0, comes back as  *)
(* the header segment and the one content segment, their texts the header  *)
(* text and the sentence; and parsing the text of a content segment of     *)
(* that result again returns that text as the single segment.              *)
(***************************************************************************)
IsSegmented(t) ==
    LET lines == SplitLines(t)
    IN  /\ Len(lines) = 2
        /\ IsHeaderLine(lines[1])
        /\ ~IsHeaderLine(lines[2])
        /\ Strip(lines[2]) # <<>>
        /\ SplitPoints(Strip(lines[2])) = {}

TextsOf(ss) == [k \in 1..Len(ss) |-> ss[k].text]

C12_FirstParse ==
    (/\ Returned
     /\ first_parse = <<>>
     /\ IsSegmented(text)
     /\ split_by_headers
     /\ min_segment_length = 0)
        => LET lines == SplitLines(text)
               h == HeaderTextOf(lines[1])
           IN  FieldsOf(segments) =
                   << [text |-> h, header |-> h, is_header |-> TRUE],
                      [text |-> Strip(lines[2]), header |-> h,
                       is_header |-> FALSE] >>

C12_SecondParse ==
    (/\ Returned
     /\ first_parse # <<>>
     /\ IsSegmented(first_parse[1].text)
     /\ split_by_headers
     /\ min_segment_length = 0)
        => /\ text = first_parse[1].segments[first_parse[1].k].text
           /\ TextsOf(segments) = <<text>>
           /\ ~segments[1].is_header

C12_Idempotent == C12_FirstParse /\ C12_SecondParse

\* The sentence of a segmented text whose lines were padded has been parsed
\* a second time, with punctuation splitting.
C12_Witness ==
    /\ Returned
    /\ first_parse # <<>>
    /\ IsSegmented(first_parse[1].text)
    /\ Strip(SplitLines(first_parse[1].text)[2]) # SplitLines(first_parse[1].text)[2]
    /\ split_by_headers
    /\ split_by_punctuation
    /\ min_segment_length = 0
    /\ segments # <<>>

(***************************************************************************)
(* C15.  Every segment-start event is logged under the header field of the *)
(* content segment it is logged for.  process_text logs it under the text  *)
(* of the last header segment of parse's result before the segment; parse  *)
(* may have filtered that header segment out as too short.                 *)
(***************************************************************************)
StartEntries == SelectSeq(entries, LAMBDA e : e.message.kind = "segment_start")

C15_LoggedHeaderIsOwn ==
    \A k \in 1..Len(StartEntries) :
        /\ k <= Len(ContentOrder(segments))
        /\ StartEntries[k].message.header
               = segments[ContentOrder(segments)[k] + 1].header

\* A segment-start event has been logged for a content segment whose header
\* segment is in parse's result.
C15_HeaderKeptReached ==
    \E k \in 1..Len(StartEntries) :
        /\ k <= Len(ContentOrder(segments))
        /\ LET i == ContentOrder(segments)[k] + 1
           IN  /\ segments[i].header # None
               /\ \E h \in 1..(i - 1) :
                      /\ segments[h].is_header
                      /\ segments[h].text = segments[i].header
               /\ StartEntries[k].message.header = segments[i].header

(***************************************************************************)
(* C14.  The logger's entries only grow, and whatever the outcomes of the  *)
(* synthesis calls they are: the two parsing messages, then for the        *)
(* segments processed so far, in order, one header event for a header      *)
(* segment and for a content segment its segment-start event directly      *)
(* followed by its segment-end event with the duration and the clip path   *)
(* (synthesis returned) or by an error message (synthesis raised), then    *)
(* the closing message once the log is written.  A segment-end event       *)
(* always has a segment-start event directly before it.                    *)
(***************************************************************************)
\* What an entry records, the header of a segment-start event set aside.
Shape(e) ==
    [kind |-> e.message.kind,
     header |-> IF e.message.kind = "header" THEN e.message.header ELSE None,
     n |-> IF e.message.kind = "segment_end" THEN 0 ELSE e.message.n,
     timed |-> e.duration_seconds # <<>>,
     segment_path |-> e.segment_path]

ShapesOf(es) == [k \in 1..Len(es) |-> Shape(es[k])]

Event(kind, header, n, timed, segment_path) ==
    [kind |-> kind, header |-> header, n |-> n, timed |-> timed,
     segment_path |-> segment_path]

\* The events of the k-th segment of parse's result, by the outcome of its
\* synthesis call.
EventsOf(k) ==
    IF segments[k].is_header
    THEN << Event("header", segments[k].text, 0, FALSE, <<>>) >>
    ELSE IF \E c \in 1..Len(SynthesisCalls) :
                SynthesisCalls[c].i = k - 1 /\ SynthesisCalls[c].ok
    THEN << Event("segment_start", None, 0, FALSE, <<>>),
            Event("segment_end", None, 0, TRUE, <<SegmentPath(k - 1)>>) >>
    ELSE << Event("segment_start", None, 0, FALSE, <<>>),
            Event("info_error", None, k - 1, FALSE, <<>>) >>

RECURSIVE EventsUpTo(_)
EventsUpTo(k) == IF k = 0 THEN <<>> ELSE EventsUpTo(k - 1) \o EventsOf(k)

C14_Recorded ==
    (entries # <<>> /\ CallsOf("interrupted") = {})
        => ShapesOf(entries) =
               << Event("info_parsing", None, 0, FALSE, <<>>),
                  Event("info_parsed", None, Len(segments), FALSE, <<>>) >>
               \o EventsUpTo(idx)
               \o (IF CallsOf("write_log") # {}
                   THEN << Event("info_final", None, 0, FALSE, <<>>) >>
                   ELSE <<>>)

C14_EndAfterStart ==
    \A k \in 1..Len(entries) :
        entries[k].message.kind = "segment_end"
            => /\ k > 1
               /\ entries[k - 1].message.kind = "segment_start"
               /\ entries[k].duration_seconds
                      \in {<<d>> : d \in 1..MaxDuration}

C14_LoggerEvents ==
    /\ [](C14_Recorded /\ C14_EndAfterStart)
    /\ [][IsPrefix(entries, entries')]_vars

\* The log has been written after a run that logged a header, a segment
\* that was synthesized and a segment whose synthesis failed.
C14_Witness ==
    /\ log_file # <<>>
    /\ \E h, a, b \in 1..Len(entries) :
           /\ entries[h].message.kind = "header"
           /\ entries[a].message.kind = "segment_end"
           /\ entries[b].message.kind = "info_error"

\* A run was interrupted in a synthesis call, its segment-start event the
\* last one logged.
C14_InterruptedReached ==
    /\ CallsOf("interrupted") # {}
    /\ entries[Len(entries)].message.kind = "segment_start"

====
